---- MODULE Spec2Model ----
(***************************************************************************)
(* The finance dashboard of src/main.py: the category rules and match log  *)
(* kept in the Streamlit session and in categories.json / log.json, the    *)
(* categorization pass over an uploaded CSV, and the handlers behind the   *)
(* "Add Category" and "Save Changes" buttons.  One action is one user      *)
(* interaction, i.e. one top-to-bottom run of the script (plus the run     *)
(* that st.rerun() starts).                                                *)
(***************************************************************************)
EXTENDS Integers, Sequences, FiniteSets, TLC

\* ------------------------------------------------------------------ bounds
MaxRows == 1

\* ----------------------------------------------------------------- strings
\* A Python str is a sequence of characters; "A" is the upper case of "a".
\* NaN is what pandas puts in a Details cell that is empty in the CSV: a
\* float, not a str.
NaN == <<"nan">>
Descriptions == {<<"A", " ">>, <<" ">>}
DetailValues == Descriptions \cup {NaN}
CategoryInputs == {"", "Uncategorized", "Food", "Dining"}

RECURSIVE lower(_)
lower(s) ==
    IF s = <<>> THEN <<>>
    ELSE <<IF Head(s) = "A" THEN "a" ELSE Head(s)>> \o lower(Tail(s))

RECURSIVE lstrip(_)
lstrip(s) ==
    IF s # <<>> /\ Head(s) = " " THEN lstrip(Tail(s)) ELSE s

RECURSIVE rstrip(_)
rstrip(s) ==
    IF s # <<>> /\ s[Len(s)] = " " THEN rstrip(SubSeq(s, 1, Len(s) - 1)) ELSE s

strip(s) == rstrip(lstrip(s))

Range(s) == {s[i] : i \in DOMAIN s}

\* ------------------------------------------------------------------- dicts
\* A Python dict keeps insertion order: a sequence of [key, val] items with
\* distinct keys.
Keys(d) == {d[i].key : i \in DOMAIN d}

Index(d, k) == CHOOSE i \in DOMAIN d : d[i].key = k

Get(d, k) == d[Index(d, k)].val

SetItem(d, k, v) ==
    IF k \in Keys(d) THEN [d EXCEPT ![Index(d, k)].val = v]
    ELSE Append(d, [key |-> k, val |-> v])

\* {cat: [] for cat in d}
RECURSIVE EmptyLists(_)
EmptyLists(d) ==
    IF d = <<>> THEN <<>>
    ELSE <<[key |-> Head(d).key, val |-> <<>>]>> \o EmptyLists(Tail(d))

DefaultCategories == <<[key |-> "Uncategorized", val |-> <<>>]>>

\* ------------------------------------------------------------------- files
Missing == [status |-> "missing", data |-> <<>>]
Corrupt == [status |-> "corrupt", data |-> <<>>]
Saved(d) == [status |-> "ok", data |-> d]

\* ----------------------------------------------------------------- uploads
\* A CSV: its columns, whether lines 93 and 94 can parse the Amount and Date
\* columns, and its rows.  A row maps the columns the model reads to values.
AllColumns == {"Date", "Details", "Amount", "Debit/Credit"}
DataColumns == {"Details", "Debit/Credit"}
ColumnSets ==
    {AllColumns, AllColumns \ {"Details"}, AllColumns \ {"Amount"},
     AllColumns \ {"Debit/Credit"}}

Row(cols, d, dc) ==
    [c \in cols \cap DataColumns |-> IF c = "Details" THEN d ELSE dc]

\* The rows a CSV over the given columns is made of: debits of every
\* description, and one credit.
RowsOver(cols) ==
    {Row(cols, d, "Debit") :
        d \in (IF "Details" \in cols THEN DetailValues ELSE {NaN})}
    \cup (IF "Debit/Credit" \in cols THEN {Row(cols, <<"A", " ">>, "Credit")} ELSE {})

Batches(cols, n) == UNION {[1..k -> RowsOver(cols)] : k \in 1..n}

Csv(cols, a, d, rows) ==
    [present |-> TRUE, columns |-> cols, amountOk |-> a, dateOk |-> d, rows |-> rows]

NoFile ==
    [present |-> FALSE, columns |-> {}, amountOk |-> TRUE, dateOk |-> TRUE,
     rows |-> <<>>]

\* Well-formed files of up to MaxRows rows, and one-row files that lack a
\* column or whose Amount or Date column does not parse.
OneRow(cols) == <<Row(cols, IF "Details" \in cols THEN <<"A", " ">> ELSE NaN, "Debit")>>

Uploads ==
    {Csv(AllColumns, TRUE, TRUE, rows) : rows \in Batches(AllColumns, MaxRows)}
    \cup {Csv(cols, TRUE, TRUE, OneRow(cols)) : cols \in ColumnSets \ {AllColumns}}
    \cup {Csv(AllColumns, FALSE, TRUE, OneRow(AllColumns)),
          Csv(AllColumns, TRUE, FALSE, OneRow(AllColumns))}

NoFrame == [present |-> FALSE, columns |-> {}, rows |-> <<>>]

\* ------------------------------------------------------------------- state
VARIABLES
    category_file,   \* categories.json
    log_file,        \* log.json
    session_keys,    \* the keys present in st.session_state
    categories,      \* st.session_state.categories
    matched,         \* st.session_state.matched
    debits_df,       \* st.session_state.debits_df
    uploaded_file,   \* the file held by the uploader widget
    event,           \* the interaction that started the latest run
    df,              \* main's df in the latest run
    widgets,         \* the widgets the latest run rendered
    reports,         \* st.warning / st.error / st.success calls of the latest run
    written,         \* the files the latest interaction wrote
    returned,        \* what the latest add_keyword_to_category call returned
    exc              \* the exception that ended the latest run, if any

vars ==
    <<category_file, log_file, session_keys, categories, matched, debits_df,
      uploaded_file, event, df, widgets, reports, written, returned, exc>>

\* The state one run of the script works on.
World ==
    [category_file |-> category_file, log_file |-> log_file,
     session_keys |-> session_keys, categories |-> categories,
     matched |-> matched, debits_df |-> debits_df, df |-> df,
     widgets |-> widgets, reports |-> reports, written |-> written,
     returned |-> returned, exc |-> exc, rerun |-> FALSE]

\* ---------------------------------------------------------------- messages
NoDetailsWarning == "warning: The uploaded file does not contain a 'Details' column."
ProcessingError == "error: Error processing the file"
DuplicateWarning == "warning: Category already exists!"
KeywordSuccess == "success: Keyword added to category"

\* ------------------------------------------------------------- persistence
\* json.dump of a dict of lists of str, read back by json.load, is that dict.
\* Mutant: the mutation is not written to categories.json.
save_categories_skipped(w) == w

save_categories(w) ==
    [w EXCEPT !.category_file = Saved(w.categories),
              !.written = @ \cup {"categories.json"}]

save_log(w) ==
    [w EXCEPT !.log_file = Saved(w.matched), !.written = @ \cup {"log.json"}]

\* Line 17-20: the default store of a session that has none.
init_categories(w) ==
    IF "categories" \notin w.session_keys
    THEN [w EXCEPT !.session_keys = @ \cup {"categories"},
                   !.categories = DefaultCategories]
    ELSE w

\* Lines 22-24: json.load of a file that is no JSON raises JSONDecodeError,
\* which nothing catches.
load_categories(w) ==
    IF w.category_file.status = "corrupt" THEN [w EXCEPT !.exc = "JSONDecodeError"]
    ELSE IF w.category_file.status = "ok"
    THEN [w EXCEPT !.categories = w.category_file.data]
    ELSE w

\* Lines 27-34: log.json is read only by a session that already has a
\* "matched" entry.
load_matched(w) ==
    IF w.exc # "none" THEN w
    ELSE IF "matched" \notin w.session_keys
    THEN [w EXCEPT !.session_keys = @ \cup {"matched"},
                   !.matched = EmptyLists(w.categories)]
    ELSE IF w.log_file.status = "missing" THEN w
    ELSE IF w.log_file.status = "corrupt"
    THEN [w EXCEPT !.matched = EmptyLists(w.categories)]
    ELSE [w EXCEPT !.matched = w.log_file.data]

\* Lines 17-34, run at the top of every script run.
startup_load(w) == load_matched(load_categories(init_categories(w)))

\* ---------------------------------------------------------- categorization
AddColumn(row, c, v) ==
    [k \in DOMAIN row \cup {c} |-> IF k = c THEN v ELSE row[k]]

\* Mutant: the keywords are trimmed but not lower-cased.
RECURSIVE lowered_not_lowered(_)
lowered_not_lowered(keywords) ==
    IF keywords = <<>> THEN <<>>
    ELSE <<strip(Head(keywords))>> \o lowered_not_lowered(Tail(keywords))

RECURSIVE lowered(_)
lowered(keywords) ==
    IF keywords = <<>> THEN <<>>
    ELSE <<lower(strip(Head(keywords)))>> \o lowered(Tail(keywords))

\* Mutant: the loop stops at a row's first match (the break of line 72).
MatchRow_first_match(category, lowered_keywords, w, idx, detail) ==
    IF /\ detail \in Range(lowered_keywords)
       /\ w.df.rows[idx]["Category"] = "Uncategorized"
    THEN [w EXCEPT !.df.rows[idx]["Category"] = category,
                   !.matched = SetItem(@, category, Append(Get(@, category), detail))]
    ELSE w

\* Lines 66-71: one row against one category's keywords.
MatchRow(category, lowered_keywords, w, idx, detail) ==
    IF detail \in Range(lowered_keywords)
    THEN [w EXCEPT !.df.rows[idx]["Category"] = category,
                   !.matched = SetItem(@, category, Append(Get(@, category), detail))]
    ELSE w

\* Lines 65-71: the rows of the frame against one category's keywords.  A
\* Details cell that is no str has no .lower(): AttributeError.
RECURSIVE MatchRows(_, _, _, _)
MatchRows(category, lowered_keywords, w, idx) ==
    IF idx > Len(w.df.rows) THEN w
    ELSE IF w.df.rows[idx]["Details"] = NaN THEN [w EXCEPT !.exc = "AttributeError"]
    ELSE MatchRows(category, lowered_keywords,
                   MatchRow(category, lowered_keywords, w, idx,
                            strip(lower(w.df.rows[idx]["Details"]))),
                   idx + 1)

\* Lines 56-71: the categories in insertion order.
RECURSIVE MatchCategories(_, _)
MatchCategories(w, c) ==
    IF c > Len(w.categories) \/ w.exc # "none" THEN w
    ELSE IF w.categories[c].key = "Uncategorized" \/ w.categories[c].val = <<>>
    THEN MatchCategories(w, c + 1)
    ELSE MatchCategories(
             MatchRows(w.categories[c].key, lowered(w.categories[c].val), w, 1),
             c + 1)

\* Lines 51-54: the match log and the Category column start afresh.
reset_matched(w) ==
    [w EXCEPT !.matched = EmptyLists(w.categories),
              !.session_keys = @ \cup {"matched"},
              !.df.columns = @ \cup {"Category"},
              !.df.rows = [i \in DOMAIN @ |->
                             AddColumn(@[i], "Category", "Uncategorized")]]

\* Line 74, which an exception in the loop never reaches.
finish_categorize(w) == IF w.exc # "none" THEN w ELSE save_log(w)

\* Lines 44-75; w.df is the frame passed in and, on return, the frame
\* returned.
categorize_transaction(w) ==
    IF "Details" \notin w.df.columns
    THEN [w EXCEPT !.reports = @ \cup {NoDetailsWarning}]
    ELSE finish_categorize(MatchCategories(reset_matched(w), 1))

\* Lines 80-83.
append_keyword(w, category, kw) ==
    [save_categories(
         [w EXCEPT !.categories = SetItem(@, category, Append(Get(@, category), kw))])
     EXCEPT !.reports = @ \cup {KeywordSuccess}, !.returned = "True"]

\* Lines 79-84, kw being the stripped keyword.  An empty kw ends the test
\* before the store is indexed; a category that is no key raises KeyError.
add_stripped(w, category, kw) ==
    IF kw = <<>> THEN [w EXCEPT !.returned = "False"]
    ELSE IF category \notin Keys(w.categories)
    THEN [w EXCEPT !.exc = "KeyError", !.returned = "nothing"]
    ELSE IF kw \in Range(Get(w.categories, category))
    THEN [w EXCEPT !.returned = "False"]
    ELSE append_keyword(w, category, kw)

\* Mutant: the keyword is stored as written, not trimmed.
add_keyword_to_category_untrimmed(w, category, keyword) ==
    IF keyword = NaN THEN [w EXCEPT !.exc = "AttributeError", !.returned = "nothing"]
    ELSE add_stripped(w, category, keyword)

\* Lines 77-84.  returned is what the call returns; a call that raises
\* returns nothing.  A keyword that is no str has no .strip().
add_keyword_to_category(w, category, keyword) ==
    IF keyword = NaN THEN [w EXCEPT !.exc = "AttributeError", !.returned = "nothing"]
    ELSE add_stripped(w, category, strip(keyword))

\* Lines 98-100: every exception raised inside load_transaction is reported
\* and turned into a None result.
load_failed(w) ==
    [w EXCEPT !.exc = "none", !.df = NoFrame, !.reports = @ \cup {ProcessingError}]

load_result(w) == IF w.exc # "none" THEN load_failed(w) ELSE w

\* Lines 87-100.
load_transaction(w, file) ==
    IF \/ "Amount" \notin file.columns \/ ~file.amountOk
       \/ "Date" \notin file.columns \/ ~file.dateOk
    THEN load_failed(w)
    ELSE load_result(categorize_transaction(
             [w EXCEPT !.df = [present |-> TRUE, columns |-> file.columns,
                               rows |-> file.rows]]))

\* ------------------------------------------------------------------- main
\* The widget values of a run in which the user pressed nothing.
NoEvent ==
    [kind |-> "none", add_button |-> FALSE, new_category |-> "",
     save_button |-> FALSE]

IsDebit(row) == row["Debit/Credit"] = "Debit"

\* Lines 150-156: one row of edited_df.
save_row(w, new_category, idx) ==
    IF new_category = w.debits_df[idx]["Category"] THEN w
    ELSE add_keyword_to_category(
             [w EXCEPT !.debits_df[idx]["Category"] = new_category],
             new_category, w.debits_df[idx]["Details"])

\* Lines 148-156: the rows of edited_df against debits_df.  edited is the
\* Category column of edited_df, which is the Category column of debits_df
\* with the user's choices on top; its Details column is that of debits_df.
RECURSIVE SaveLoop(_, _, _)
SaveLoop(w, edited, idx) ==
    IF idx > Len(edited) \/ w.exc # "none" THEN w
    ELSE SaveLoop(save_row(w, edited[idx], idx), edited, idx + 1)

\* Lines 133-156: the editor needs the Details and Category columns.
editor(w, ev, edited) ==
    IF ~({"Details", "Category"} \subseteq w.df.columns)
    THEN [w EXCEPT !.exc = "KeyError"]
    ELSE IF ev.save_button
    THEN SaveLoop([w EXCEPT !.widgets = @ \cup {"category_editor", "save_changes"}],
                  edited, 1)
    ELSE [w EXCEPT !.widgets = @ \cup {"category_editor", "save_changes"}]

\* Lines 120-129, then the rest of the tab.
add_category(w, ev, edited) ==
    IF ~(ev.add_button /\ ev.new_category # "") THEN editor(w, ev, edited)
    ELSE IF ev.new_category \notin Keys(w.categories)
    THEN [save_categories(
              [w EXCEPT !.categories = SetItem(@, ev.new_category, <<>>)])
          EXCEPT !.rerun = TRUE]
    ELSE editor([w EXCEPT !.reports = @ \cup {DuplicateWarning}], ev, edited)

\* Lines 110-121.
dashboard(w, ev, edited) ==
    IF ~w.df.present THEN w
    ELSE IF "Debit/Credit" \notin w.df.columns THEN [w EXCEPT !.exc = "KeyError"]
    ELSE add_category([w EXCEPT !.debits_df = SelectSeq(w.df.rows, IsDebit),
                                !.session_keys = @ \cup {"debits_df"},
                                !.widgets = @ \cup {"add_category"}],
                      ev, edited)

\* Lines 102-175.
main(w, file, ev, edited) ==
    IF ~file.present THEN [w EXCEPT !.widgets = {"file_uploader"}]
    ELSE dashboard(load_transaction([w EXCEPT !.widgets = {"file_uploader"}], file),
                   ev, edited)

\* What a run starts from: nothing rendered, nothing reported, no df.
Fresh(w) ==
    [w EXCEPT !.df = NoFrame, !.widgets = {}, !.reports = {},
              !.returned = "nothing", !.exc = "none", !.rerun = FALSE]

\* Line 179, which a failed startup never reaches.
run_main(w, file, ev, edited) ==
    IF w.exc # "none" THEN w ELSE main(w, file, ev, edited)

\* One run of the script, top to bottom.
run(w, file, ev, edited) == run_main(startup_load(Fresh(w)), file, ev, edited)

\* Line 127: st.rerun() starts the script again, with no button pressed.
rerun(w, file) == IF w.rerun THEN run(w, file, NoEvent, <<>>) ELSE w

\* One interaction: a run, and the run st.rerun() starts.
script(w, file, ev, edited) ==
    rerun(run([w EXCEPT !.written = {}], file, ev, edited), file)

\* A session that has run nothing yet, over the given files.
NewWorld(cf, lf) ==
    [category_file |-> cf, log_file |-> lf, session_keys |-> {},
     categories |-> <<>>, matched |-> <<>>, debits_df |-> <<>>, df |-> NoFrame,
     widgets |-> {}, reports |-> {}, written |-> {}, returned |-> "nothing",
     exc |-> "none", rerun |-> FALSE]

\* ----------------------------------------------------------------- actions
Becomes(w, file, ev) ==
    /\ category_file' = w.category_file
    /\ log_file' = w.log_file
    /\ session_keys' = w.session_keys
    /\ categories' = w.categories
    /\ matched' = w.matched
    /\ debits_df' = w.debits_df
    /\ df' = w.df
    /\ widgets' = w.widgets
    /\ reports' = w.reports
    /\ written' = w.written
    /\ returned' = w.returned
    /\ exc' = w.exc
    /\ uploaded_file' = file
    /\ event' = ev

Starts(w) ==
    /\ category_file = w.category_file
    /\ log_file = w.log_file
    /\ session_keys = w.session_keys
    /\ categories = w.categories
    /\ matched = w.matched
    /\ debits_df = w.debits_df
    /\ df = w.df
    /\ widgets = w.widgets
    /\ reports = w.reports
    /\ written = w.written
    /\ returned = w.returned
    /\ exc = w.exc
    /\ uploaded_file = NoFile
    /\ event = NoEvent

\* The first run of a session, with no file in the uploader, over files
\* that are absent or left unreadable.
Init ==
    \E cf \in {Missing, Corrupt}, lf \in {Missing, Corrupt} :
        Starts(script(NewWorld(cf, lf), NoFile, NoEvent, <<>>))

\* The user reloads the page: a new session over the files on disk.
NewSession ==
    /\ session_keys # {}
    /\ Becomes(script(NewWorld(category_file, log_file), NoFile, NoEvent, <<>>),
               NoFile, [NoEvent EXCEPT !.kind = "new_session"])

\* The user puts a CSV in the uploader.
Upload ==
    \E file \in Uploads :
        /\ "file_uploader" \in widgets
        /\ Becomes(script(World, file, NoEvent, <<>>), file,
                   [NoEvent EXCEPT !.kind = "upload"])

\* The user takes the file out of the uploader.
RemoveFile ==
    /\ "file_uploader" \in widgets
    /\ uploaded_file.present
    /\ Becomes(script(World, NoFile, NoEvent, <<>>), NoFile,
               [NoEvent EXCEPT !.kind = "remove"])

AddCategoryEvent(name) ==
    [NoEvent EXCEPT !.kind = "add_category", !.add_button = TRUE,
                    !.new_category = name]

\* The user types a name and presses "Add Category".
AddCategory ==
    \E name \in CategoryInputs :
        /\ "add_category" \in widgets
        /\ Becomes(script(World, uploaded_file, AddCategoryEvent(name), <<>>),
                   uploaded_file, AddCategoryEvent(name))

\* The user changes a cell of the editor: a run with no button pressed.
EditCell ==
    /\ "category_editor" \in widgets
    /\ Becomes(script(World, uploaded_file, NoEvent, <<>>), uploaded_file,
               [NoEvent EXCEPT !.kind = "edit"])

SaveEvent == [NoEvent EXCEPT !.kind = "save", !.save_button = TRUE]

\* The columns the user can leave in the editor: per row of the frame the
\* run shows, one of the options (the store's keys).
EditedColumns(shown) ==
    IF "save_changes" \in shown.widgets
    THEN [1..Len(shown.debits_df) -> Keys(shown.categories)]
    ELSE {}

\* The user picks categories in the editor and presses "Save Changes".  The
\* editor shows the frame this run has just categorized, with the user's
\* choices on top.
SaveChanges ==
    /\ "save_changes" \in widgets
    /\ \E edited \in EditedColumns(run(World, uploaded_file, NoEvent, <<>>)) :
           Becomes(script(World, uploaded_file, SaveEvent, edited),
                   uploaded_file, SaveEvent)

Next ==
    \/ NewSession
    \/ Upload
    \/ RemoveFile
    \/ AddCategory
    \/ EditCell
    \/ SaveChanges

Spec == Init /\ [][Next]_vars

\* ------------------------------------------- add_keyword_to_category alone
\* The function called on its own: any category name and any text, on a
\* store and its file.
KeywordInputs == {<<>>, <<" ">>, <<"a">>, <<"A">>, <<"A", " ">>}
KeywordCategories == {"Uncategorized", "Food", "Dining"}
KwStores ==
    {DefaultCategories,
     Append(DefaultCategories, [key |-> "Food", val |-> <<>>])}

KwEvent(category, keyword) ==
    [kind |-> "add_keyword", category |-> category, keyword |-> keyword]

InitKw ==
    \E store \in KwStores :
        Starts([NewWorld(Saved(store), Missing) EXCEPT
                   !.session_keys = {"categories", "matched"},
                   !.categories = store, !.matched = EmptyLists(store)])

CallAddKeyword ==
    \E category \in KeywordCategories, keyword \in KeywordInputs :
        /\ uploaded_file = NoFile
        /\ Becomes(add_keyword_to_category(Fresh([World EXCEPT !.written = {}]),
                                           category, keyword),
                   NoFile, KwEvent(category, keyword))

NextKw == CallAddKeyword

SpecKw == InitKw /\ [][NextKw]_vars

\* ------------------------------------------------------------------ claims
\* The positions of the categories other than "Uncategorized" that hold a
\* keyword which, trimmed and lower-cased, equals the description lower-cased
\* and trimmed.
Matching(store, description) ==
    {c \in DOMAIN store :
        /\ store[c].key # "Uncategorized"
        /\ \E k \in DOMAIN store[c].val :
               lower(strip(store[c].val[k])) = strip(lower(description))}

Last(S) == CHOOSE c \in S : \A other \in S : other <= c

\* A frame categorize_transaction ran over and returned.
CategorizedFrame(frame) == frame.present /\ "Details" \in frame.columns

\* The store the categorization pass of a step read.  A run started by
\* "Save Changes" categorizes under the store it starts with and adds
\* keywords afterwards; every other run ends with the store its last pass
\* read.
StoreRead == IF event'.kind = "save" THEN categories ELSE categories'

OneCategoryEach(frame, store) ==
    \A i \in DOMAIN frame.rows :
        /\ "Category" \in DOMAIN frame.rows[i]
        /\ frame.rows[i]["Category"] \in Keys(store)
        /\ frame.rows[i]["Details"] # NaN =>
               (frame.rows[i]["Category"] = "Uncategorized"
                    <=> Matching(store, frame.rows[i]["Details"]) = {})

\* C1: after categorize has run on a batch with a Details column, every row
\* carries one category of the store, and it is "Uncategorized" exactly when
\* no keyword of another category, trimmed and lower-cased, equals the row's
\* lower-cased and trimmed description.
C1_OneCategoryUncategorizedIffNoMatch ==
    [][CategorizedFrame(df') => OneCategoryEach(df', StoreRead)]_vars

\* C1 witness: a pass has given a row a category through a keyword that
\* differs from the row's description as written.
C1_Witness ==
    /\ CategorizedFrame(df)
    /\ event.kind # "save"
    /\ \E i \in DOMAIN df.rows :
           /\ df.rows[i]["Details"] = <<"A", " ">>
           /\ df.rows[i]["Category"] = "Food"
           /\ Get(categories, "Food") = <<<<"A">>>>

\* The rows the save loop of a step has moved to another category.
Reassigned ==
    IF event'.kind = "save" /\ "save_changes" \in widgets'
    THEN {i \in DOMAIN debits_df' :
             debits_df'[i]["Category"] # SelectSeq(df'.rows, IsDebit)[i]["Category"]}
    ELSE {}

NonBlank(description) == description # NaN /\ strip(description) # <<>>

\* Reassigning a row leaves its trimmed description among the keywords of
\* the chosen category.
ReassignLearns ==
    \A i \in Reassigned :
        NonBlank(debits_df'[i]["Details"]) =>
            /\ debits_df'[i]["Category"] \in Keys(categories')
            /\ strip(debits_df'[i]["Details"])
                   \in Range(Get(categories', debits_df'[i]["Category"]))

\* No step takes a category or a keyword out of the store.
KeywordsKept ==
    \A c \in DOMAIN categories :
        /\ c \in DOMAIN categories'
        /\ categories'[c].key = categories[c].key
        /\ Range(categories[c].val) \subseteq Range(categories'[c].val)

\* C2 as claimed, for the categories the user adds: once a category holds
\* the trimmed description of a row, every categorization pass gives a row
\* of that description that category.
C2_LearnedCategoryAlwaysAssigned ==
    [][/\ ReassignLearns
       /\ KeywordsKept
       /\ CategorizedFrame(df') =>
              \A i \in DOMAIN df'.rows, c \in DOMAIN StoreRead :
                  (/\ StoreRead[c].key # "Uncategorized"
                   /\ NonBlank(df'.rows[i]["Details"])
                   /\ strip(df'.rows[i]["Details"]) \in Range(StoreRead[c].val))
                      => df'.rows[i]["Category"] = StoreRead[c].key]_vars

\* C2 amended: reassigning a row whose description is not blank leaves the
\* trimmed description among the keywords of the chosen category, no step
\* removes a keyword, and every categorization pass gives a row the last
\* category in insertion order, other than "Uncategorized", that holds a
\* keyword equal to the description after trimming and lower-casing.
C2_LearnedKeywordAssignsLastHolder ==
    [][/\ ReassignLearns
       /\ KeywordsKept
       /\ CategorizedFrame(df') =>
              \A i \in DOMAIN df'.rows :
                  (/\ df'.rows[i]["Details"] # NaN
                   /\ Matching(StoreRead, df'.rows[i]["Details"]) # {})
                      => df'.rows[i]["Category"] =
                             StoreRead[Last(Matching(StoreRead,
                                                     df'.rows[i]["Details"]))].key]_vars

\* C2 witness: a later upload of a row whose description was learned by a
\* reassignment comes back with the category that learned it.
C2_Witness ==
    /\ event.kind = "upload"
    /\ CategorizedFrame(df)
    /\ \E i \in DOMAIN df.rows :
           /\ NonBlank(df.rows[i]["Details"])
           /\ df.rows[i]["Category"] # "Uncategorized"
           /\ strip(df.rows[i]["Details"])
                  \in Range(Get(categories, df.rows[i]["Category"]))

HasEmptyUncategorized(store) ==
    \E c \in DOMAIN store : store[c].key = "Uncategorized" /\ store[c].val = <<>>

\* C3: the store, and categories.json when it holds a store, always has the
\* key "Uncategorized" with an empty keyword list.
C3_UncategorizedAlwaysEmpty ==
    /\ "categories" \in session_keys => HasEmptyUncategorized(categories)
    /\ category_file.status = "ok" => HasEmptyUncategorized(category_file.data)

\* C4: the startup load never ends the run with an exception; with
\* categories.json missing or unreadable the store is the default, and an
\* unreadable log.json leaves the empty match log.
C4_LoadNeverFails ==
    /\ exc # "JSONDecodeError"
    /\ category_file.status \in {"missing", "corrupt"} => categories = DefaultCategories
    /\ log_file.status = "corrupt" => matched = EmptyLists(categories)

\* C5: add_keyword_to_category returns False, raises nothing and leaves the
\* store and categories.json alone when the category is no key of the store,
\* the trimmed text is empty, or the trimmed text is already a keyword of
\* the category.
C5_NoOpAddKeyword ==
    [][(/\ event'.kind = "add_keyword"
        /\ \/ event'.category \notin Keys(categories)
           \/ strip(event'.keyword) = <<>>
           \/ strip(event'.keyword) \in Range(Get(categories, event'.category)))
           => /\ returned' = "False"
              /\ exc' = "none"
              /\ categories' = categories
              /\ category_file' = category_file]_vars

\* C6: after a run over a file with no Details column the warning is
\* reported, every row of the frame has category "Uncategorized", and
\* log.json was not written.
C6_NoDetailsAllUncategorized ==
    (/\ uploaded_file.present
     /\ "Details" \notin uploaded_file.columns
     /\ "file_uploader" \in widgets)
        => /\ NoDetailsWarning \in reports
           /\ df.present
           /\ \A i \in DOMAIN df.rows :
                  /\ "Category" \in DOMAIN df.rows[i]
                  /\ df.rows[i]["Category"] = "Uncategorized"
           /\ "log.json" \notin written

\* A file the claim names as failing: a required column is missing, Amount
\* or Date does not parse, or a Details cell is no str.
FailingFile(file) ==
    /\ file.present
    /\ \/ ~({"Date", "Amount", "Debit/Credit"} \subseteq file.columns)
       \/ ~file.amountOk
       \/ ~file.dateOk
       \/ /\ "Details" \in file.columns
          /\ \E i \in DOMAIN file.rows : file.rows[i]["Details"] = NaN

\* C7: an upload that fails is reported, leaves the store, the match log and
\* both files as they were, and leaves the dashboard running.
C7_FailedUploadChangesNothing ==
    [][(/\ event'.kind = "upload"
        /\ FailingFile(uploaded_file')
        /\ ProcessingError \in reports' \/ exc' # "none")
           => /\ ProcessingError \in reports'
              /\ exc' = "none"
              /\ categories' = categories
              /\ matched' = matched
              /\ category_file' = category_file
              /\ log_file' = log_file]_vars

\* C8: a row whose normalized description equals keywords of two or more
\* categories gets the one that comes last in the store, and its normalized
\* description is in the match log of each of them.
C8_LastMatchingCategoryWins ==
    [][CategorizedFrame(df') =>
           \A i \in DOMAIN df'.rows :
               (/\ df'.rows[i]["Details"] # NaN
                /\ Cardinality(Matching(StoreRead, df'.rows[i]["Details"])) >= 2)
                   => /\ df'.rows[i]["Category"] =
                             StoreRead[Last(Matching(StoreRead,
                                                     df'.rows[i]["Details"]))].key
                      /\ \A c \in Matching(StoreRead, df'.rows[i]["Details"]) :
                             strip(lower(df'.rows[i]["Details"]))
                                 \in Range(Get(matched', StoreRead[c].key))]_vars

\* C8 witness: a pass over a row that two categories match.
C8_Witness ==
    /\ CategorizedFrame(df)
    /\ event.kind # "save"
    /\ \E i \in DOMAIN df.rows :
           /\ df.rows[i]["Details"] # NaN
           /\ Cardinality(Matching(categories, df.rows[i]["Details"])) >= 2
           /\ df.rows[i]["Category"] = categories[Len(categories)].key

\* C9: while the same batch is shown (the file stays and is not uploaded
\* again), a row that has a category other than "Uncategorized" never goes
\* back to "Uncategorized", and changes category only through a saved
\* reassignment.
C9_NeverBackToUncategorized ==
    [][(/\ uploaded_file' = uploaded_file
        /\ event'.kind # "upload"
        /\ "save_changes" \in widgets
        /\ "save_changes" \in widgets')
           => \A i \in DOMAIN debits_df :
                  (/\ debits_df[i]["Details"] # NaN
                   /\ debits_df[i]["Category"] # "Uncategorized")
                      => /\ debits_df'[i]["Category"] # "Uncategorized"
                         /\ debits_df'[i]["Category"] # debits_df[i]["Category"]
                                => event'.kind = "save"]_vars

\* C10: a step that changes the store leaves categories.json equal to it,
\* and a step that does not change the store does not write categories.json.
C10_WriteThrough ==
    [][/\ categories' # categories =>
              /\ category_file' = Saved(categories')
              /\ "categories.json" \in written'
       /\ categories' = categories =>
              /\ "categories.json" \notin written'
              /\ category_file' = category_file]_vars

\* C10 witness: a saved reassignment has added a keyword and written the
\* store to categories.json.
C10_Witness ==
    /\ event.kind = "save"
    /\ returned = "True"
    /\ "categories.json" \in written
    /\ category_file = Saved(categories)

====
